---- MODULE Spec2Model ----
(***************************************************************************)
(* CineMatch backend: the recommendation engine (MovieRecommender), its    *)
(* snapshot persistence, the startup task that creates it and the API      *)
(* route that queries it.                                                  *)
(*                                                                         *)
(* Real numbers are fixed-point integers.  Scores, similarities and        *)
(* weights are counted in units of 1/SCALE, ratings (vote_average, C, the  *)
(* weighted rating) in units of 1/RSCALE, and m (a 95th percentile of      *)
(* integers, so a multiple of 1/20) in units of 1/MSCALE.  A missing value *)
(* (SQL NULL, pandas/numpy NaN) is the value NaN, which every arithmetic   *)
(* operator propagates and every comparison answers FALSE on, as IEEE 754  *)
(* does.  Python's None is the value None.                                 *)
(***************************************************************************)
EXTENDS Integers, Sequences, FiniteSets, TLC

SCALE == 2 * 10000
RSCALE == 10 * 10
MSCALE == 2 * 10
NaN == 0 - 999999
None == 0 - 888888

\* ------------------------------------------------------------------------
\* Bounds of the model
\* ------------------------------------------------------------------------
\* rows of the movie table
MaxItems == 3
\* largest top_n a caller passes
MaxTopN == 2
\* the threads of the threadpool that run recommend at the same time
MaxWorkers == 2
\* the completed fits the history counts up to
MaxFits == 2

\* ------------------------------------------------------------------------
\* Arithmetic
\* ------------------------------------------------------------------------
IsNaN(x) == x = NaN

FAdd(a, b) == IF IsNaN(a) \/ IsNaN(b) THEN NaN ELSE a + b

FSub(a, b) == IF IsNaN(a) \/ IsNaN(b) THEN NaN ELSE a - b

\* product of two values counted in 1/SCALE
FMul(a, b) == IF IsNaN(a) \/ IsNaN(b) THEN NaN ELSE (a * b) \div SCALE

FLt(a, b) == ~IsNaN(a) /\ ~IsNaN(b) /\ a < b

FGt(a, b) == ~IsNaN(a) /\ ~IsNaN(b) /\ a > b

FGe(a, b) == ~IsNaN(a) /\ ~IsNaN(b) /\ a >= b

\* round(num / den) to the nearest integer, ties to even (Python's round)
RoundHalfEven(num, den) ==
    LET q == num \div den
        r == num % den
    IN  IF 2 * r > den THEN q + 1
        ELSE IF 2 * r < den THEN q
        ELSE q + (q % 2)

\* Newton's iteration from a guess x above the root
RECURSIVE IsqrtFrom(_, _)
IsqrtFrom(n, x) ==
    LET y == (x + (n \div x)) \div 2
    IN  IF y >= x THEN x ELSE IsqrtFrom(n, y)

\* floor of the square root of n < 2^31
Isqrt(n) == IF n = 0 THEN 0 ELSE IsqrtFrom(n, 46340)

RECURSIVE SumOver(_, _)
SumOver(f, S) ==
    IF S = {} THEN 0
    ELSE LET x == CHOOSE y \in S : TRUE
         IN  f[x] + SumOver(f, S \ {x})

\* TLC keeps a function constructor as a closure and evaluates its body at
\* every application; these two give the same sequence or function as an
\* explicit value, computed once
List(s) == s \o <<>>

Table(f) == f @@ <<>>

ReverseSeq(s) == [i \in 1..Len(s) |-> s[Len(s) + 1 - i]]

Range(s) == {s[i] : i \in DOMAIN s}

\* insert x at position l (1-based) of s
InsertAt(s, l, x) == SubSeq(s, 1, l - 1) \o <<x>> \o SubSeq(s, l, Len(s))

RECURSIVE SortAsc(_)
SortAsc(s) ==
    IF Len(s) <= 1 THEN s
    ELSE LET t == SortAsc(SubSeq(s, 1, Len(s) - 1))
             x == s[Len(s)]
             l == 1 + Cardinality({i \in DOMAIN t : t[i] <= x})
         IN  InsertAt(t, l, x)

\* ------------------------------------------------------------------------
\* The catalog source: the movie table with its genre and keyword links
\* ------------------------------------------------------------------------
Spaces == <<"overview", "genres", "keywords">>

\* A text column of the query result: SQL NULL, or the terms the
\* vectorizer's analyzer finds in the string (an empty string has none).
Null == [null |-> TRUE, terms |-> <<>>]
Text(terms) == [null |-> FALSE, terms |-> terms]

Movie(ov, ge, kw, va, vc) ==
    [overview |-> ov, genres |-> ge, keywords |-> kw,
     vote_average |-> va, vote_count |-> vc]

\* The movies the catalogs of the model are made of: a well voted one, one
\* without any vote and one without vote_average.
MoviePool ==
    { Movie(Text(<<1, 1, 2>>), Text(<<1>>), Text(<<1>>), 8 * RSCALE, 100),
      Movie(Text(<<1>>), Text(<<2>>), Null, 6 * RSCALE, 0),
      Movie(Text(<<2>>), Text(<<1, 2>>), Text(<<1, 2>>), NaN, 10) }

\* primary key of the i-th row the query returns
MovieId(i) == 10 * ((3 * i) % 7) + 1

UnknownId == 99

Catalogs == UNION {[1..n -> MoviePool] : n \in 0..MaxItems}

\* ------------------------------------------------------------------------
\* _load_data
\* ------------------------------------------------------------------------
Fillna(text) == IF text.null THEN <<>> ELSE text.terms

ReadSql(table) ==
    [i \in 1..Len(table) |->
        [id |-> MovieId(i),
         overview |-> Fillna(table[i].overview),
         genres |-> Fillna(table[i].genres),
         keywords |-> Fillna(table[i].keywords),
         vote_average |-> table[i].vote_average,
         vote_count |-> table[i].vote_count]]

\* ------------------------------------------------------------------------
\* _calculate_popularity
\* ------------------------------------------------------------------------
NotNaN(s) == SelectSeq(s, LAMBDA x : ~IsNaN(x))

RECURSIVE SeqSum(_)
SeqSum(s) == IF s = <<>> THEN 0 ELSE s[1] + SeqSum(Tail(s))

\* (mutant) a missing entry counts as 0
SeriesMeanZeroFilled(s) ==
    IF s = <<>> THEN NaN ELSE SeqSum(NotNaN(s)) \div Len(s)

\* Series.mean(): NaN entries are skipped
SeriesMean(s) ==
    LET xs == NotNaN(s)
    IN  IF xs = <<>> THEN NaN ELSE SeqSum(xs) \div Len(xs)

\* Series.quantile(0.95), linear interpolation, NaN entries skipped;
\* the result is counted in 1/MSCALE
SeriesQuantile95(s) ==
    LET xs == SortAsc(NotNaN(s))
        n == Len(xs)
        pos == 19 * (n - 1)
        lo == pos \div MSCALE
        fr == pos % MSCALE
        hi == IF lo + 1 < n THEN lo + 1 ELSE lo
    IN  IF n = 0 THEN NaN
        ELSE MSCALE * xs[lo + 1] + fr * (xs[hi + 1] - xs[lo + 1])

\* (mutant) the rating falls as vote_average rises
WeightedRatingInverted(x, C, m) ==
    LET v == x.vote_count
        R == x.vote_average
        vm == MSCALE * v + m
    IN  IF v = 0 THEN 0
        ELSE IF IsNaN(v) \/ IsNaN(R) \/ IsNaN(C) \/ IsNaN(m) THEN NaN
        ELSE ((MSCALE * v * (10 * RSCALE - R)) \div vm) + ((m * C) \div vm)

WeightedRating(x, C, m) ==
    LET v == x.vote_count
        R == x.vote_average
        vm == MSCALE * v + m
    IN  IF v = 0 THEN 0
        ELSE IF IsNaN(v) \/ IsNaN(R) \/ IsNaN(C) \/ IsNaN(m) THEN NaN
        ELSE ((MSCALE * v * R) \div vm) + ((m * C) \div vm)

RECURSIVE SeqMin(_)
SeqMin(s) ==
    IF Len(s) = 1 THEN s[1]
    ELSE LET r == SeqMin(Tail(s)) IN IF s[1] < r THEN s[1] ELSE r

RECURSIVE SeqMax(_)
SeqMax(s) ==
    IF Len(s) = 1 THEN s[1]
    ELSE LET r == SeqMax(Tail(s)) IN IF s[1] > r THEN s[1] ELSE r

\* MinMaxScaler().fit_transform on one column: NaN is disregarded in fit
\* and kept in transform; a zero range is replaced by 1
MinMaxScale(col) ==
    LET xs == NotNaN(col)
        lo == IF xs = <<>> THEN NaN ELSE SeqMin(xs)
        hi == IF xs = <<>> THEN NaN ELSE SeqMax(xs)
        range == FSub(hi, lo)
    IN  [i \in 1..Len(col) |->
            IF IsNaN(col[i]) \/ IsNaN(range) THEN NaN
            ELSE IF range = 0 THEN (col[i] - lo) * SCALE
            ELSE ((col[i] - lo) * SCALE) \div range]

\* ------------------------------------------------------------------------
\* _build_models: TfidfVectorizer().fit_transform, one call per column
\* ------------------------------------------------------------------------
ISCALE == 10 * 100

\* natural logarithm of 1..8, counted in 1/ISCALE
Ln == <<0, 693, 1099, 1386, 1609, 1792, 1946, 2079>>

Vocabulary(docs) == UNION {Range(docs[i]) : i \in DOMAIN docs}

TermCount(doc, t) == Cardinality({k \in DOMAIN doc : doc[k] = t})

DocFreq(docs, t) == Cardinality({i \in DOMAIN docs : t \in Range(docs[i])})

\* smooth_idf: ln((1 + n) / (1 + df)) + 1
Idf(n, df) == Ln[1 + n] - Ln[1 + df] + ISCALE

\* Euclidean norm of a row (a function from terms to values)
RowNorm(row) == Isqrt(SumOver([t \in DOMAIN row |-> row[t] * row[t]], DOMAIN row))

\* sklearn.preprocessing.normalize: a row of norm 0 is left as it is
L2Normalize(row) ==
    LET n == RowNorm(row)
    IN  IF n = 0 THEN row ELSE Table([t \in DOMAIN row |-> (row[t] * SCALE) \div n])

\* the document-term matrix: one row per document, one column per term of
\* the vocabulary, tf * idf, rows L2-normalized
TfidfMatrix(docs) ==
    LET V == Vocabulary(docs)
        n == Len(docs)
    IN  List([i \in 1..n |->
            L2Normalize(Table([t \in V |->
                TermCount(docs[i], t) * Idf(n, DocFreq(docs, t))]))])

\* fit_transform raises ValueError("empty vocabulary") when no document
\* holds a term
TfidfFails(docs) == Vocabulary(docs) = {}

Column(df, col) ==
    [i \in 1..Len(df) |->
        CASE col = "overview" -> df[i].overview
          [] col = "genres" -> df[i].genres
          [] col = "keywords" -> df[i].keywords
          [] col = "vote_average" -> df[i].vote_average
          [] col = "vote_count" -> df[i].vote_count
          [] col = "id" -> df[i].id]

\* ------------------------------------------------------------------------
\* The engine object (an instance of MovieRecommender)
\* ------------------------------------------------------------------------
\* the fields as __init__ sets them before fitting: df None, no matrix
NewRecommender ==
    [df_is_none |-> TRUE, df |-> <<>>,
     has_wr |-> FALSE, weighted_rating |-> <<>>, wr_normalized |-> <<>>,
     matrices |-> <<>>, C |-> None, m |-> None]

LoadDataInto(self, table) ==
    [self EXCEPT !.df_is_none = FALSE, !.df = ReadSql(table)]

\* on an empty frame MinMaxScaler.fit_transform raises ValueError
PopularityFails(self) == Len(self.df) = 0

\* lines 72-77: every row is rated with the C and m just assigned, then the
\* column is scaled
ScoreRows(self, C, m) ==
    LET wr == [i \in 1..Len(self.df) |-> WeightedRating(self.df[i], C, m)]
    IN  [self EXCEPT !.C = C, !.m = m, !.has_wr = TRUE,
                     !.weighted_rating = wr, !.wr_normalized = MinMaxScale(wr)]

CalculatePopularityOf(self) ==
    ScoreRows(self, SeriesMean(Column(self.df, "vote_average")),
              SeriesQuantile95(Column(self.df, "vote_count")))

WithMatrix(self, col) ==
    [self EXCEPT !.matrices =
        [s \in DOMAIN self.matrices \cup {col} |->
            IF s = col THEN TfidfMatrix(Column(self.df, col))
            ELSE self.matrices[s]]]

\* ------------------------------------------------------------------------
\* recommend
\* ------------------------------------------------------------------------
Ok(items) == [kind |-> "ok", error |-> "", items |-> items]
Raise(error) == [kind |-> "error", error |-> error, items |-> <<>>]

\* (mutant) an id that is not in the catalog resolves to the first row
InputIndicesUnknownFirst(df, movie_ids) ==
    SelectSeq([i \in 1..Len(df) |-> i],
              LAMBDA i : \/ df[i].id \in movie_ids
                         \/ i = 1 /\ \E id \in movie_ids :
                                        \A j \in DOMAIN df : df[j].id # id)

\* df[df["id"].isin(movie_ids)].index.tolist()
InputIndices(df, movie_ids) ==
    SelectSeq([i \in 1..Len(df) |-> i], LAMBDA i : df[i].id \in movie_ids)

\* np.mean(matrix[input_indices], axis=0)
UserProfile(matrix, input_indices) ==
    LET V == DOMAIN matrix[input_indices[1]]
        n == Len(input_indices)
    IN  Table([t \in V |->
            SeqSum([k \in 1..n |-> matrix[input_indices[k]][t]]) \div n])

\* cosine_similarity(user_profile, matrix).flatten(): both sides are
\* normalized, then multiplied
CosineSimilarity(profile, matrix) ==
    LET p == L2Normalize(profile)
    IN  List([i \in 1..Len(matrix) |->
            LET r == L2Normalize(matrix[i])
            IN  SumOver([t \in DOMAIN p |-> p[t] * r[t]], DOMAIN p) \div SCALE])

SimScoresOf(self, input_indices, col) ==
    CosineSimilarity(UserProfile(self.matrices[col], input_indices),
                     self.matrices[col])

SimScores(self, input_indices) ==
    [overview |-> SimScoresOf(self, input_indices, "overview"),
     genres |-> SimScoresOf(self, input_indices, "genres"),
     keywords |-> SimScoresOf(self, input_indices, "keywords")]

\* weights.get(col, 0)
WeightsGet(weights, col) == IF col \in DOMAIN weights THEN weights[col] ELSE 0

TotalContentScores(sim_scores, weights, n) ==
    List([i \in 1..n |->
        FAdd(FAdd(FMul(sim_scores["overview"][i], WeightsGet(weights, "overview")),
                  FMul(sim_scores["genres"][i], WeightsGet(weights, "genres"))),
             FMul(sim_scores["keywords"][i], WeightsGet(weights, "keywords")))])

\* (mutant) popularity is blended with the similarity weight itself
PopularityWeightSame(similarity_weight) == similarity_weight

PopularityWeight(similarity_weight) == SCALE - similarity_weight

FinalScores(total, pop_scores, similarity_weight, popularity_weight) ==
    List([i \in 1..Len(total) |->
        FAdd(FMul(total[i], similarity_weight),
             FMul(pop_scores[i], popularity_weight))])

\* (mutant) the inputs are not skipped
CandidatesKeepInputs(final_scores, input_indices, min_score) ==
    LET rows == [i \in 1..Len(final_scores) |-> [idx |-> i, score |-> final_scores[i]]]
    IN  SelectSeq(rows, LAMBDA c : ~FLt(c.score, min_score))

\* the candidate list: every row but the inputs and the rows scoring
\* below min_score, in row order
Candidates(final_scores, input_indices, min_score) ==
    LET rows == [i \in 1..Len(final_scores) |-> [idx |-> i, score |-> final_scores[i]]]
    IN  SelectSeq(rows, LAMBDA c : c.idx \notin Range(input_indices)
                                   /\ ~FLt(c.score, min_score))

\* ------------------------------------------------------------------------
\* sorted(candidates, key=lambda x: x[1], reverse=True): CPython's list
\* sort on fewer than 64 elements is one run finished by binary insertion;
\* it compares keys with < alone, and reverse=True reverses the list before
\* and after so that equal keys keep their order
\* ------------------------------------------------------------------------
KeyLt(a, b) == FLt(a.score, b.score)

\* the length of the run that starts the list, and whether it descends
RECURSIVE RunLength(_, _, _)
RunLength(s, n, descending) ==
    IF n >= Len(s) THEN n
    ELSE IF KeyLt(s[n + 1], s[n]) = descending THEN RunLength(s, n + 1, descending)
    ELSE n

CountRun(s) ==
    LET descending == KeyLt(s[2], s[1])
    IN  [n |-> RunLength(s, 2, descending), descending |-> descending]

RECURSIVE BisectRight(_, _, _, _)
BisectRight(s, pivot, l, r) ==
    IF l >= r THEN l
    ELSE LET p == l + ((r - l) \div 2)
         IN  IF KeyLt(pivot, s[p]) THEN BisectRight(s, pivot, l, p)
             ELSE BisectRight(s, pivot, p + 1, r)

\* s[1..start-1] is sorted; insert s[start], s[start+1], ... one by one
RECURSIVE BinarySort(_, _)
BinarySort(s, start) ==
    IF start > Len(s) THEN s
    ELSE LET pivot == s[start]
             l == BisectRight(s, pivot, 1, start)
             moved == InsertAt(SubSeq(s, 1, start - 1), l, pivot)
                          \o SubSeq(s, start + 1, Len(s))
         IN  BinarySort(moved, start + 1)

ListSort(s) ==
    IF Len(s) < 2 THEN s
    ELSE LET run == CountRun(s)
             t == IF run.descending
                  THEN ReverseSeq(SubSeq(s, 1, run.n)) \o SubSeq(s, run.n + 1, Len(s))
                  ELSE s
         IN  BinarySort(t, run.n + 1)

SortedReverse(s) == ReverseSeq(ListSort(ReverseSeq(s)))

\* candidates[:top_n]; top_n None keeps the whole list
Truncate(s, top_n) ==
    IF top_n = None \/ top_n >= Len(s) THEN s ELSE SubSeq(s, 1, top_n)

\* round((c / safe_divisor) * 100, 2), counted in 1/100 of a percent
Percent(c, safe_divisor) ==
    IF IsNaN(c) \/ IsNaN(safe_divisor) THEN NaN
    ELSE RoundHalfEven(c * 100 * 100, safe_divisor)

\* round(float(final_score), 4), counted in 1/10000
Round4(final_score) ==
    IF IsNaN(final_score) THEN NaN
    ELSE RoundHalfEven(final_score * 10000, SCALE)

\* (mutant) the popularity part is weighted with similarity_weight
FormatResultPopularityBySimilarity(self, c, sim_scores, pop_scores, weights, similarity_weight, popularity_weight) ==
    LET c_ov == FMul(FMul(sim_scores["overview"][c.idx],
                          WeightsGet(weights, "overview")), similarity_weight)
        c_ge == FMul(FMul(sim_scores["genres"][c.idx],
                          WeightsGet(weights, "genres")), similarity_weight)
        c_kw == FMul(FMul(sim_scores["keywords"][c.idx],
                          WeightsGet(weights, "keywords")), similarity_weight)
        c_pop == FMul(pop_scores[c.idx], similarity_weight)
        safe_divisor == IF FGt(c.score, 0) THEN c.score ELSE SCALE
    IN  [id |-> self.df[c.idx].id,
         relevance_score |-> Round4(c.score),
         column_contribution |->
            [overview |-> Percent(c_ov, safe_divisor),
             genres |-> Percent(c_ge, safe_divisor),
             keywords |-> Percent(c_kw, safe_divisor),
             popularity |-> Percent(c_pop, safe_divisor)]]

\* one entry of the returned list
FormatResult(self, c, sim_scores, pop_scores, weights, similarity_weight, popularity_weight) ==
    LET c_ov == FMul(FMul(sim_scores["overview"][c.idx],
                          WeightsGet(weights, "overview")), similarity_weight)
        c_ge == FMul(FMul(sim_scores["genres"][c.idx],
                          WeightsGet(weights, "genres")), similarity_weight)
        c_kw == FMul(FMul(sim_scores["keywords"][c.idx],
                          WeightsGet(weights, "keywords")), similarity_weight)
        c_pop == FMul(pop_scores[c.idx], popularity_weight)
        safe_divisor == IF FGt(c.score, 0) THEN c.score ELSE SCALE
    IN  [id |-> self.df[c.idx].id,
         relevance_score |-> Round4(c.score),
         column_contribution |->
            [overview |-> Percent(c_ov, safe_divisor),
             genres |-> Percent(c_ge, safe_divisor),
             keywords |-> Percent(c_kw, safe_divisor),
             popularity |-> Percent(c_pop, safe_divisor)]]

\* an argument list of recommend; weights is [is_none, map]
Args(movie_ids, top_n, min_score, similarity_weight, weights) ==
    [movie_ids |-> movie_ids, top_n |-> top_n, min_score |-> min_score,
     similarity_weight |-> similarity_weight, weights |-> weights]

WeightsNone == [is_none |-> TRUE, map |-> <<>>]
WeightsDict(map) == [is_none |-> FALSE, map |-> map]

\* the final score of every row, for a call that gets that far
ScoresOf(self, defaults, a) ==
    LET weights == IF a.weights.is_none THEN defaults ELSE a.weights.map
        input_indices == InputIndices(self.df, a.movie_ids)
        sim_scores == SimScores(self, input_indices)
        total == TotalContentScores(sim_scores, weights, Len(self.df))
    IN  FinalScores(total, self.wr_normalized, a.similarity_weight,
                    PopularityWeight(a.similarity_weight))

\* what recommend(movie_ids, top_n, min_score, similarity_weight, weights)
\* returns or raises on the object self
Recommend(self, defaults, a) ==
    IF self.df_is_none THEN Raise("Model not loaded.")
    ELSE
    LET weights == IF a.weights.is_none THEN defaults ELSE a.weights.map
        popularity_weight == PopularityWeight(a.similarity_weight)
        input_indices == InputIndices(self.df, a.movie_ids)
    IN  IF input_indices = <<>> THEN Ok(<<>>)
        ELSE IF \E col \in Range(Spaces) : col \notin DOMAIN self.matrices
        THEN Raise("KeyError")
        ELSE IF ~self.has_wr THEN Raise("KeyError")
        ELSE
        LET sim_scores == SimScores(self, input_indices)
            pop_scores == self.wr_normalized
            final_scores ==
                FinalScores(TotalContentScores(sim_scores, weights, Len(self.df)),
                            pop_scores, a.similarity_weight, popularity_weight)
        IN  IF a.min_score = None /\ Len(input_indices) < Len(self.df)
            THEN Raise("TypeError")
            ELSE
            LET candidates ==
                    Truncate(SortedReverse(
                        Candidates(final_scores, input_indices, a.min_score)),
                        a.top_n)
            IN  Ok([k \in 1..Len(candidates) |->
                      FormatResult(self, candidates[k], sim_scores, pop_scores,
                                   weights, a.similarity_weight, popularity_weight)])

\* (mutant) the popularity column is scaled in place through the view
\* df["wr_normalized"].values gives
SelfAfterRecommendInPlace(self, a) ==
    IF self.df_is_none \/ ~self.has_wr \/ InputIndices(self.df, a.movie_ids) = <<>>
    THEN self
    ELSE [self EXCEPT !.wr_normalized =
            List([i \in 1..Len(self.wr_normalized) |->
                    FMul(self.wr_normalized[i],
                         PopularityWeight(a.similarity_weight))])]

\* recommend assigns no attribute of self: the object after the call
SelfAfterRecommend(self, a) == self

\* nor does it assign the class attribute default_weights
DefaultsAfterRecommend(defaults, a) == defaults

\* ------------------------------------------------------------------------
\* State
\* ------------------------------------------------------------------------
VARIABLES
    movie_table,      \* the rows of the movie table, in the order the query returns them
    disk,             \* what MODEL_PATH holds
    pc,               \* where the process is in its startup
    engine,           \* the engine argument of on_startup_create_recommender
    obj,              \* the MovieRecommender being built or loaded
    app_recommender,  \* app.state.recommender (the value startup returned)
    default_weights,  \* MovieRecommender.default_weights
    call,             \* the recommend call in progress or just finished
    http,             \* status of the API response being sent, 0 when none
    prev_failed,      \* an earlier recommend call on this engine raised
    workers,          \* the threadpool's threads: position in recommend, arguments, result
    frames,           \* the local variables of each recommend call in progress
    fits              \* history: the fits completed by the processes started so far

vars == <<movie_table, disk, pc, engine, obj, app_recommender, default_weights,
          call, http, prev_failed, workers, frames, fits>>

Absent == [kind |-> "absent", data |-> NewRecommender]
\* joblib.dump has opened the file and not finished writing it
Partial == [kind |-> "partial", data |-> NewRecommender]
\* a whole pickle of a dict that lacks one of the six keys load reads
MissingField == [kind |-> "missing_field", data |-> NewRecommender]
Complete(self) == [kind |-> "complete", data |-> self]

FitFails(table) ==
    \/ Len(table) = 0
    \/ \E col \in Range(Spaces) : TfidfFails(Column(ReadSql(table), col))

FitOf(table) ==
    WithMatrix(WithMatrix(WithMatrix(
        CalculatePopularityOf(LoadDataInto(NewRecommender, table)),
        "overview"), "genres"), "keywords")

\* what MODEL_URL may serve: a snapshot saved from a fit of the catalog, or
\* one written by another version of the code
RemoteArtifacts(table) ==
    {MissingField} \cup (IF FitFails(table) THEN {} ELSE {Complete(FitOf(table))})

NoRecommender == [is_set |-> FALSE, value |-> NewRecommender]

NoArgs == Args({}, None, None, None, WeightsNone)
\* the body of a request, when the call is not made for one
NoBody == [ids |-> {}, top_n |-> None, similarity_weight |-> None]
NoCall == [state |-> "idle", via |-> "", args |-> NoArgs, outcome |-> Ok(<<>>), body |-> NoBody]
Called(via, a, outcome) ==
    [state |-> "done", via |-> via, args |-> a, outcome |-> outcome, body |-> NoBody]

DefaultWeights ==
    [overview |-> SCALE \div 5, genres |-> (2 * SCALE) \div 5,
     keywords |-> (2 * SCALE) \div 5]

\* the local variables of one call of recommend, before any is assigned
NewFrame ==
    [weights |-> <<>>, input_indices |-> <<>>,
     sim_scores |-> [overview |-> <<>>, genres |-> <<>>, keywords |-> <<>>],
     pop_scores |-> <<>>, final_scores |-> <<>>, candidates |-> <<>>]

Threads == 1..MaxWorkers

IdleWorker == [pc |-> "idle", args |-> NoArgs, result |-> Ok(<<>>)]

NoWorkers == [t \in Threads |-> IdleWorker]

NoFrames == [t \in Threads |-> NewFrame]

\* on_startup_populate_db ends without a return statement
OnStartupPopulateDb == "None"

Stopped == {"idle", "dead", "aborted_download", "aborted_load",
            "aborted_engine", "aborted_fit"}

Init ==
    /\ movie_table \in Catalogs
    /\ disk = Absent
    /\ pc = "idle"
    /\ engine = "None"
    /\ obj = NewRecommender
    /\ app_recommender = NoRecommender
    /\ default_weights = DefaultWeights
    /\ call = NoCall
    /\ http = 0
    /\ prev_failed = FALSE
    /\ workers = NoWorkers
    /\ frames = NoFrames
    /\ fits = 0

\* ------------------------------------------------------------------------
\* Startup
\* ------------------------------------------------------------------------
ProcessReset ==
    /\ obj' = NewRecommender
    /\ app_recommender' = NoRecommender
    /\ default_weights' = DefaultWeights
    /\ call' = NoCall
    /\ http' = 0
    /\ prev_failed' = FALSE
    /\ workers' = NoWorkers
    /\ frames' = NoFrames

\* main.py startup(): the engine is what on_startup_populate_db returned
StartApp ==
    /\ UNCHANGED fits
    /\ pc \in Stopped
    /\ pc' = "startup"
    /\ engine' = OnStartupPopulateDb
    /\ ProcessReset
    /\ UNCHANGED <<movie_table, disk>>

\* on_startup_create_recommender called with a database engine
StartWithEngine ==
    /\ UNCHANGED fits
    /\ pc \in Stopped
    /\ pc' = "startup"
    /\ engine' = "db"
    /\ ProcessReset
    /\ UNCHANGED <<movie_table, disk>>

\* the process is killed
Crash ==
    /\ UNCHANGED fits
    /\ pc \notin Stopped
    /\ pc' = "dead"
    /\ ProcessReset
    /\ UNCHANGED <<movie_table, disk, engine>>

Process == <<obj, app_recommender, default_weights, call, http, prev_failed, workers, frames>>

\* lines 18-19: no file at MODEL_PATH, download_model() publishes one
DownloadModel ==
    /\ UNCHANGED fits
    /\ pc = "startup"
    /\ disk.kind = "absent"
    /\ \E artifact \in RemoteArtifacts(movie_table) : disk' = artifact
    /\ pc' = "exists"
    /\ UNCHANGED <<movie_table, engine>>
    /\ UNCHANGED Process

\* lines 18-19: gdown.download raises; nothing catches it
DownloadRaises ==
    /\ UNCHANGED fits
    /\ pc = "startup"
    /\ disk.kind = "absent"
    /\ pc' = "aborted_download"
    /\ UNCHANGED <<movie_table, disk, engine>>
    /\ UNCHANGED Process

\* lines 18-19: gdown.download gives up and returns None, or there is
\* already a file and nothing is downloaded
DownloadSkipped ==
    /\ UNCHANGED fits
    /\ pc = "startup"
    /\ pc' = "exists"
    /\ UNCHANGED <<movie_table, disk, engine>>
    /\ UNCHANGED Process

\* lines 21-24 and load: the file deserializes into the six fields
LoadSnapshot ==
    /\ UNCHANGED fits
    /\ UNCHANGED <<workers, frames>>
    /\ pc = "exists"
    /\ disk.kind = "complete"
    /\ obj' = disk.data
    /\ pc' = "return"
    /\ UNCHANGED <<movie_table, disk, engine, app_recommender, default_weights,
                   call, http, prev_failed>>

\* lines 21-23 and load: joblib.load or a data[...] lookup raises; nothing
\* catches it
LoadRaises ==
    /\ UNCHANGED fits
    /\ pc = "exists"
    /\ disk.kind \in {"partial", "missing_field"}
    /\ pc' = "aborted_load"
    /\ UNCHANGED <<movie_table, disk, engine>>
    /\ UNCHANGED Process

\* (mutant) the fit branch is taken whether or not MODEL_PATH exists
ConstructIgnoringSnapshot ==
    /\ UNCHANGED fits
    /\ UNCHANGED <<workers, frames>>
    /\ pc = "exists"
    /\ obj' = NewRecommender
    /\ pc' = IF engine = "None" THEN "aborted_engine" ELSE "load_data"
    /\ UNCHANGED <<movie_table, disk, engine, app_recommender, default_weights,
                   call, http, prev_failed>>

\* lines 26-27 and __init__ lines 16-31: the fields are set, then the
\* engine argument is tested
Construct ==
    /\ UNCHANGED fits
    /\ UNCHANGED <<workers, frames>>
    /\ pc = "exists"
    /\ disk.kind = "absent"
    /\ obj' = NewRecommender
    /\ pc' = IF engine = "None" THEN "aborted_engine" ELSE "load_data"
    /\ UNCHANGED <<movie_table, disk, engine, app_recommender, default_weights,
                   call, http, prev_failed>>

LoadData ==
    /\ UNCHANGED fits
    /\ UNCHANGED <<workers, frames>>
    /\ pc = "load_data"
    /\ obj' = LoadDataInto(obj, movie_table)
    /\ pc' = "calculate_popularity"
    /\ UNCHANGED <<movie_table, disk, engine, app_recommender, default_weights,
                   call, http, prev_failed>>

CalculatePopularity ==
    /\ UNCHANGED fits
    /\ UNCHANGED <<workers, frames>>
    /\ pc = "calculate_popularity"
    /\ IF PopularityFails(obj)
       THEN /\ pc' = "aborted_fit"
            /\ obj' = obj
       ELSE /\ pc' = "build_models"
            /\ obj' = CalculatePopularityOf(obj)
    /\ UNCHANGED <<movie_table, disk, engine, app_recommender, default_weights,
                   call, http, prev_failed>>

\* the column _build_models fits next
NextColumn(self) ==
    Spaces[1 + Cardinality(DOMAIN self.matrices)]

\* (mutant) a ValueError of fit_transform is swallowed and startup goes on
BuildModelStepSwallowed ==
    /\ UNCHANGED <<workers, frames>>
    /\ pc = "build_models"
    /\ LET col == NextColumn(obj)
       IN  IF TfidfFails(Column(obj.df, col))
           THEN /\ pc' = "save"
                /\ obj' = obj
           ELSE /\ obj' = WithMatrix(obj, col)
                /\ pc' = IF col = "keywords" THEN "save" ELSE "build_models"
    /\ UNCHANGED <<movie_table, disk, engine, app_recommender, default_weights,
                   call, http, prev_failed>>

BuildModelStep ==
    /\ UNCHANGED <<workers, frames>>
    /\ pc = "build_models"
    /\ LET col == NextColumn(obj)
       IN  IF TfidfFails(Column(obj.df, col))
           THEN /\ pc' = "aborted_fit"
                /\ obj' = obj
           ELSE /\ obj' = WithMatrix(obj, col)
                /\ pc' = IF col = "keywords" THEN "save" ELSE "build_models"
    /\ UNCHANGED <<movie_table, disk, engine, app_recommender, default_weights,
                   call, http, prev_failed>>

BuildModel == BuildModelStep /\ UNCHANGED fits

\* the same step, with the history of completed fits recorded
BuildModelRecorded ==
    /\ BuildModelStep
    /\ fits' = IF pc' = "save" /\ fits < MaxFits THEN fits + 1 ELSE fits

\* save: joblib.dump opens MODEL_PATH for writing
SaveBegin ==
    /\ UNCHANGED fits
    /\ pc = "save"
    /\ disk' = Partial
    /\ pc' = "saving"
    /\ UNCHANGED <<movie_table, engine>>
    /\ UNCHANGED Process

\* save: joblib.dump has written the whole dict
SaveEnd ==
    /\ UNCHANGED fits
    /\ pc = "saving"
    /\ disk' = Complete(obj)
    /\ pc' = "return"
    /\ UNCHANGED <<movie_table, engine>>
    /\ UNCHANGED Process

\* the task returns; main.py stores the value in app.state.recommender
Install ==
    /\ UNCHANGED fits
    /\ UNCHANGED <<workers, frames>>
    /\ pc = "return"
    /\ app_recommender' = [is_set |-> TRUE, value |-> obj]
    /\ pc' = "serving"
    /\ UNCHANGED <<movie_table, disk, engine, obj, default_weights, call, http,
                   prev_failed>>

\* ------------------------------------------------------------------------
\* Queries
\* ------------------------------------------------------------------------
\* the ids a caller may pass: those of the catalog and one that is not
SeedSets(self) ==
    {ids \in SUBSET ({self.df[i].id : i \in DOMAIN self.df} \cup {UnknownId}) :
        Cardinality(ids) <= 2}

MinScores == {0, SCALE \div 10, 2 * SCALE}

SimilarityWeights == {(4 * SCALE) \div 5, SCALE}

WeightChoices == {WeightsNone, WeightsDict([overview |-> SCALE])}

MethodArgs(self) ==
    {Args(ids, n, ms, sw, w) :
        ids \in SeedSets(self), n \in 1..MaxTopN, ms \in MinScores,
        sw \in SimilarityWeights, w \in WeightChoices}

\* a caller holding the engine startup returned calls recommend
RecommendCall ==
    /\ UNCHANGED fits
    /\ UNCHANGED <<workers, frames>>
    /\ pc = "serving"
    /\ call.state = "idle"
    /\ http = 0
    /\ \E a \in MethodArgs(app_recommender.value) :
        /\ call' = Called("method", a,
                          Recommend(app_recommender.value, default_weights, a))
        /\ app_recommender' =
              [app_recommender EXCEPT !.value = SelfAfterRecommend(@, a)]
        /\ default_weights' = DefaultsAfterRecommend(default_weights, a)
    /\ UNCHANGED <<movie_table, disk, pc, engine, obj, http, prev_failed>>

\* RecommendMoviesRequest: ids, top_n (default 10) and similarity_weight
\* (default 0.7), the last two nullable
DefaultTopN == 10

ApiBodies(self) ==
    [ids : {{}, {MovieId(1)}, {MovieId(1), UnknownId}},
     top_n : {DefaultTopN, None},
     similarity_weight : {(7 * SCALE) \div 10, None}]

\* recommend_by_ids passes ids, top_n and similarity_weight by position
RouteArgs(body) ==
    Args(body.ids, body.top_n, body.similarity_weight, (4 * SCALE) \div 5,
         WeightsNone)

\* the route then calls iterrows() on what recommend returned, a list
ListHasIterrows == FALSE

RouteStatus(outcome) ==
    IF outcome.kind = "ok" /\ ListHasIterrows THEN 200 ELSE 500

\* get_recommender's answer when app.state holds no recommender
NotLoadedStatus == 503

\* POST /api/recommend, the dependency get_recommender included
ApiRequest ==
    /\ UNCHANGED fits
    /\ UNCHANGED <<workers, frames>>
    /\ pc \notin Stopped
    /\ engine = OnStartupPopulateDb
    /\ call.state = "idle"
    /\ http = 0
    /\ IF ~app_recommender.is_set
       THEN /\ http' = NotLoadedStatus
            /\ UNCHANGED <<call, app_recommender, default_weights>>
       ELSE \E body \in ApiBodies(app_recommender.value) :
            LET a == RouteArgs(body)
                outcome == Recommend(app_recommender.value, default_weights, a)
            IN  /\ call' = [Called("api", a, outcome) EXCEPT !.body = body]
                /\ http' = RouteStatus(outcome)
                /\ app_recommender' =
                      [app_recommender EXCEPT !.value = SelfAfterRecommend(@, a)]
                /\ default_weights' = DefaultsAfterRecommend(default_weights, a)
    /\ UNCHANGED <<movie_table, disk, pc, engine, obj, prev_failed>>

\* the call returns or raises to its caller, the response is sent
Return ==
    /\ UNCHANGED fits
    /\ UNCHANGED <<workers, frames>>
    /\ call.state = "done" \/ http # 0
    /\ call' = NoCall
    /\ http' = 0
    /\ prev_failed' = (prev_failed \/ (call.state = "done" /\ call.outcome.kind = "error"))
    /\ UNCHANGED <<movie_table, disk, pc, engine, obj, app_recommender,
                   default_weights>>

\* recommend called on the object __init__ is still fitting
EarlyArgs(self) ==
    {Args(ids, 1, 0, SCALE, WeightsNone) : ids \in {{MovieId(1)}, {UnknownId}}}

EarlyRecommend ==
    /\ UNCHANGED fits
    /\ UNCHANGED <<workers, frames>>
    /\ pc \in {"load_data", "calculate_popularity", "build_models"}
    /\ call.state = "idle"
    /\ http = 0
    /\ \E a \in EarlyArgs(obj) :
        /\ call' = Called("early", a, Recommend(obj, default_weights, a))
        /\ obj' = SelfAfterRecommend(obj, a)
        /\ default_weights' = DefaultsAfterRecommend(default_weights, a)
    /\ UNCHANGED <<movie_table, disk, pc, engine, app_recommender, http,
                   prev_failed>>

\* ------------------------------------------------------------------------
\* Queries on worker threads
\* ------------------------------------------------------------------------
\* each call of recommend has a frame of its own for its local variables
FrameShared(t) == 1

FrameOf(t) == t

\* the arguments the requests in flight carry
WorkerArgs ==
    {Args({MovieId(1)}, MaxTopN, 0, (4 * SCALE) \div 5, WeightsNone),
     Args({MovieId(1), UnknownId}, 1, 0, SCALE, WeightsDict([overview |-> SCALE]))}

WorkerFinish(t, outcome) ==
    workers' = [workers EXCEPT ![t] = [@ EXCEPT !.pc = "done", !.result = outcome]]

WorkerGoto(t, label) ==
    workers' = [workers EXCEPT ![t] = [@ EXCEPT !.pc = label]]

\* run_in_threadpool calls recommend on a free thread; lines 139-150: the
\* guard, weights, input_indices
WorkerBegin(t) ==
    /\ UNCHANGED fits
    /\ pc = "serving"
    /\ workers[t].pc = "idle"
    /\ \E a \in WorkerArgs :
        LET self == app_recommender.value
            input_indices == InputIndices(self.df, a.movie_ids)
            called == [workers EXCEPT ![t] = [pc |-> "similarity", args |-> a, result |-> Ok(<<>>)]]
        IN  IF self.df_is_none
            THEN /\ workers' = [called EXCEPT ![t].pc = "done", ![t].result = Raise("Model not loaded.")]
                 /\ frames' = frames
            ELSE /\ frames' = [frames EXCEPT ![FrameOf(t)] =
                       [@ EXCEPT !.weights = IF a.weights.is_none THEN default_weights
                                             ELSE a.weights.map,
                                 !.input_indices = input_indices]]
                 /\ workers' = IF input_indices = <<>>
                               THEN [called EXCEPT ![t].pc = "done"]
                               ELSE called
    /\ UNCHANGED <<movie_table, disk, pc, engine, obj, app_recommender,
                   default_weights, call, http, prev_failed>>

\* lines 152-163: sim_scores
WorkerSimilarity(t) ==
    /\ UNCHANGED fits
    /\ workers[t].pc = "similarity"
    /\ LET self == app_recommender.value
           f == frames[FrameOf(t)]
       IN  IF \E col \in Range(Spaces) : col \notin DOMAIN self.matrices
           THEN WorkerFinish(t, Raise("KeyError")) /\ frames' = frames
           ELSE /\ frames' = [frames EXCEPT ![FrameOf(t)] =
                      [@ EXCEPT !.sim_scores = SimScores(self, f.input_indices)]]
                /\ WorkerGoto(t, "scores")
    /\ UNCHANGED <<movie_table, disk, pc, engine, obj, app_recommender,
                   default_weights, call, http, prev_failed>>

\* lines 165-182: pop_scores, total_content_scores, final_scores
WorkerScores(t) ==
    /\ UNCHANGED fits
    /\ workers[t].pc = "scores"
    /\ LET self == app_recommender.value
           a == workers[t].args
           f == frames[FrameOf(t)]
       IN  IF ~self.has_wr
           THEN WorkerFinish(t, Raise("KeyError")) /\ frames' = frames
           ELSE /\ frames' = [frames EXCEPT ![FrameOf(t)] =
                      [@ EXCEPT !.pop_scores = self.wr_normalized,
                                !.final_scores =
                                    FinalScores(TotalContentScores(f.sim_scores, f.weights, Len(self.df)),
                                                self.wr_normalized, a.similarity_weight,
                                                PopularityWeight(a.similarity_weight))]]
                /\ WorkerGoto(t, "candidates")
    /\ UNCHANGED <<movie_table, disk, pc, engine, obj, app_recommender,
                   default_weights, call, http, prev_failed>>

\* lines 184-195: candidates, sorted and cut to top_n
WorkerCandidates(t) ==
    /\ UNCHANGED fits
    /\ workers[t].pc = "candidates"
    /\ LET a == workers[t].args
           f == frames[FrameOf(t)]
       IN  IF a.min_score = None /\ Len(f.input_indices) < Len(f.final_scores)
           THEN WorkerFinish(t, Raise("TypeError")) /\ frames' = frames
           ELSE /\ frames' = [frames EXCEPT ![FrameOf(t)] =
                      [@ EXCEPT !.candidates =
                            Truncate(SortedReverse(Candidates(f.final_scores, f.input_indices, a.min_score)),
                                     a.top_n)]]
                /\ WorkerGoto(t, "format")
    /\ UNCHANGED <<movie_table, disk, pc, engine, obj, app_recommender,
                   default_weights, call, http, prev_failed>>

\* lines 197-230: results
WorkerFormat(t) ==
    /\ UNCHANGED fits
    /\ workers[t].pc = "format"
    /\ LET self == app_recommender.value
           a == workers[t].args
           f == frames[FrameOf(t)]
       IN  WorkerFinish(t, Ok([k \in 1..Len(f.candidates) |->
              FormatResult(self, f.candidates[k], f.sim_scores, f.pop_scores, f.weights,
                           a.similarity_weight, PopularityWeight(a.similarity_weight))]))
    /\ UNCHANGED <<movie_table, disk, pc, engine, obj, app_recommender,
                   default_weights, call, http, prev_failed, frames>>

\* the route has taken the thread's result or exception
WorkerReturn(t) ==
    /\ UNCHANGED fits
    /\ workers[t].pc = "done"
    /\ workers' = [workers EXCEPT ![t] = IdleWorker]
    /\ frames' = [frames EXCEPT ![FrameOf(t)] = NewFrame]
    /\ UNCHANGED <<movie_table, disk, pc, engine, obj, app_recommender,
                   default_weights, call, http, prev_failed>>

WorkerStep ==
    \E t \in Threads :
        \/ WorkerBegin(t)
        \/ WorkerSimilarity(t)
        \/ WorkerScores(t)
        \/ WorkerCandidates(t)
        \/ WorkerFormat(t)
        \/ WorkerReturn(t)

Next ==
    \/ StartApp
    \/ StartWithEngine
    \/ Crash
    \/ DownloadModel
    \/ DownloadRaises
    \/ DownloadSkipped
    \/ LoadSnapshot
    \/ LoadRaises
    \/ Construct
    \/ LoadData
    \/ CalculatePopularity
    \/ BuildModel
    \/ SaveBegin
    \/ SaveEnd
    \/ Install
    \/ RecommendCall
    \/ ApiRequest
    \/ Return

Spec == Init /\ [][Next]_vars

\* the same program with a caller that reaches the engine before its
\* construction has returned
SpecEarly == Init /\ [][Next \/ EarlyRecommend]_vars

\* the startup main.py runs, and the requests served on the threadpool's
\* threads
NextThreads ==
    \/ StartApp
    \/ Crash
    \/ DownloadModel
    \/ DownloadRaises
    \/ DownloadSkipped
    \/ LoadSnapshot
    \/ LoadRaises
    \/ Construct
    \/ Install
    \/ WorkerStep

SpecThreads == Init /\ [][NextThreads]_vars

\* the process starts alone, with the completed fits recorded
NextStarts ==
    \/ StartApp
    \/ StartWithEngine
    \/ Crash
    \/ DownloadModel
    \/ DownloadRaises
    \/ DownloadSkipped
    \/ LoadSnapshot
    \/ LoadRaises
    \/ Construct
    \/ LoadData
    \/ CalculatePopularity
    \/ BuildModelRecorded
    \/ SaveBegin
    \/ SaveEnd
    \/ Install

SpecStarts == Init /\ [][NextStarts]_vars

\* ------------------------------------------------------------------------
\* load on the files MODEL_PATH may hold
\* ------------------------------------------------------------------------
\* a dict with the six keys whose matrices were built for a catalog one row
\* longer than its df
RowsDropped(self) ==
    [self EXCEPT !.df = SubSeq(self.df, 1, Len(self.df) - 1),
                 !.weighted_rating = SubSeq(self.weighted_rating, 1, Len(self.df) - 1),
                 !.wr_normalized = SubSeq(self.wr_normalized, 1, Len(self.df) - 1)]

\* what a process may find at MODEL_PATH when it starts: nothing, a file
\* cut short, a dict without one of the keys, a snapshot save wrote, or a
\* dict with the six keys that save did not write
SnapshotFiles(table) ==
    {Absent, Partial, MissingField}
        \cup (IF FitFails(table) THEN {}
              ELSE {Complete(FitOf(table)), Complete(RowsDropped(FitOf(table)))})

InitSnapshots ==
    /\ movie_table \in Catalogs
    /\ disk \in SnapshotFiles(movie_table)
    /\ pc = "idle"
    /\ engine = "None"
    /\ obj = NewRecommender
    /\ app_recommender = NoRecommender
    /\ default_weights = DefaultWeights
    /\ call = NoCall
    /\ http = 0
    /\ prev_failed = FALSE
    /\ workers = NoWorkers
    /\ frames = NoFrames
    /\ fits = 0

NextSnapshots ==
    \/ StartApp
    \/ Crash
    \/ DownloadModel
    \/ DownloadRaises
    \/ DownloadSkipped
    \/ LoadSnapshot
    \/ LoadRaises
    \/ Construct
    \/ Install

SpecSnapshots == InitSnapshots /\ [][NextSnapshots]_vars

\* ------------------------------------------------------------------------
\* _calculate_popularity on rows of a large catalog
\* ------------------------------------------------------------------------
\* two rows with the same vote_count and a third one, of a catalog whose
\* other rows decide C and m
SampleRow(va, vc) == Movie(Null, Null, Null, va, vc)

SampleAverages == {NaN, 3 * RSCALE, 6 * RSCALE, (17 * RSCALE) \div 2}

SampleCounts == {0, 10, 100}

SampleTables ==
    {<<SampleRow(r1, v), SampleRow(r2, v), SampleRow(r3, v3)>> :
        r1 \in SampleAverages, r2 \in SampleAverages, v \in SampleCounts,
        r3 \in {NaN, 5 * RSCALE}, v3 \in {0, 100}}

\* the mean is a number as soon as one row has a vote_average
SampleMeans(table) ==
    IF \A i \in DOMAIN table : IsNaN(table[i].vote_average) THEN {NaN}
    ELSE {4 * RSCALE, 7 * RSCALE}

SampleQuantiles == {NaN, 0, 5 * MSCALE, 50 * MSCALE, 150 * MSCALE}

InitPopularity ==
    /\ movie_table \in SampleTables
    /\ \E C \in SampleMeans(movie_table), m \in SampleQuantiles :
          obj = [LoadDataInto(NewRecommender, movie_table) EXCEPT !.C = C, !.m = m]
    /\ pc = "apply"
    /\ disk = Absent
    /\ engine = "db"
    /\ app_recommender = NoRecommender
    /\ default_weights = DefaultWeights
    /\ call = NoCall
    /\ http = 0
    /\ prev_failed = FALSE
    /\ workers = NoWorkers
    /\ frames = NoFrames
    /\ fits = 0

\* lines 72-77 with the C and m of lines 67-69
ApplyWeightedRating ==
    /\ pc = "apply"
    /\ obj' = ScoreRows(obj, obj.C, obj.m)
    /\ pc' = "scored"
    /\ UNCHANGED <<movie_table, disk, engine, app_recommender, default_weights,
                   call, http, prev_failed, workers, frames, fits>>

SpecPopularity == InitPopularity /\ [][ApplyWeightedRating]_vars

\* ------------------------------------------------------------------------
\* Properties
\* ------------------------------------------------------------------------
\* the engine the finished call ran on
CallSelf == IF call.via = "early" THEN obj ELSE app_recommender.value

Done == call.state = "done"

\* a finished call on the engine startup returned
Served == Done /\ call.via \in {"method", "api"}

Returned == Served /\ call.outcome.kind = "ok"

Items == call.outcome.items

CatalogIds(self) == {self.df[i].id : i \in DOMAIN self.df}

RowOf(self, id) == CHOOSE i \in DOMAIN self.df : self.df[i].id = id

\* the weight the call gives a space
SpaceWeight(col) ==
    IF call.args.weights.is_none THEN default_weights[col]
    ELSE IF col \in DOMAIN call.args.weights.map THEN call.args.weights.map[col]
    ELSE 0

\* C1: no item whose id is among the seed ids is returned.
C1_SeedsExcluded ==
    Returned => \A k \in DOMAIN Items : Items[k].id \notin call.args.movie_ids

\* a call with seeds that all resolve returned something
C1_Witness ==
    /\ Returned
    /\ call.args.movie_ids # {}
    /\ call.args.movie_ids \subseteq CatalogIds(CallSelf)
    /\ Len(Items) >= 1

\* x comes before y when ranked by final score descending, then row ascending
RankedBefore(x, y) ==
    \/ FGt(x.score, y.score)
    \/ ~IsNaN(x.score) /\ x.score = y.score /\ x.idx < y.idx

\* C2: for top_n >= 1 the result is the first min(top_n, number of
\* candidates) elements of the candidate list ordered by final score
\* descending, equal scores by ascending row; its length is at most top_n.
C2_RankedPrefix ==
    (Returned /\ call.args.top_n # None /\ call.args.top_n >= 1
              /\ InputIndices(CallSelf.df, call.args.movie_ids) # <<>>) =>
    LET final_scores == ScoresOf(CallSelf, default_weights, call.args)
        input_indices == InputIndices(CallSelf.df, call.args.movie_ids)
        candidates == Range(Candidates(final_scores, input_indices, call.args.min_score))
        ranked == [k \in DOMAIN Items |->
                     LET i == RowOf(CallSelf, Items[k].id)
                     IN  [idx |-> i, score |-> final_scores[i]]]
        n == Cardinality(candidates)
    IN  /\ Len(Items) = (IF call.args.top_n < n THEN call.args.top_n ELSE n)
        /\ Range(ranked) \subseteq candidates
        /\ \A k \in 1..(Len(ranked) - 1) : RankedBefore(ranked[k], ranked[k + 1])
        /\ \A c \in candidates \ Range(ranked) :
              \A k \in DOMAIN ranked : RankedBefore(ranked[k], c)

\* C3: seed ids that are not in the catalog are dropped: the call returns
\* what it returns with the seeds restricted to the catalog's ids, and an
\* empty sequence, without error, when no seed id resolves.
C3_UnknownSeedsDropped ==
    Served =>
    LET known == call.args.movie_ids \cap CatalogIds(CallSelf)
    IN  /\ call.outcome =
              Recommend(CallSelf, default_weights,
                        [call.args EXCEPT !.movie_ids = known])
        /\ known = {} => call.outcome = Ok(<<>>)

\* a call with a known and an unknown seed returned something
C3_Witness ==
    /\ Returned
    /\ UnknownId \in call.args.movie_ids
    /\ call.args.movie_ids \cap CatalogIds(CallSelf) # {}
    /\ Len(Items) >= 1

\* C4: every returned item has final_score >= min_score.
C4_MinScore ==
    (Returned /\ call.args.min_score # None /\ Items # <<>>) =>
    LET final_scores == ScoresOf(CallSelf, default_weights, call.args)
    IN  \A k \in DOMAIN Items :
            FGe(final_scores[RowOf(CallSelf, Items[k].id)], call.args.min_score)

\* C5: the reported score of a returned item i is, rounded to 4 decimals,
\* similarity_weight * (sum over the three spaces of the space's weight
\* times the space's similarity of i) + (1 - similarity_weight) * the
\* popularity score of i, a space without a weight counting with weight 0.
C5_BlendedScore ==
    (Returned /\ Items # <<>>) =>
    LET sim == SimScores(CallSelf, InputIndices(CallSelf.df, call.args.movie_ids))
        sw == call.args.similarity_weight
    IN  \A k \in DOMAIN Items :
            LET i == RowOf(CallSelf, Items[k].id)
                content ==
                    FAdd(FAdd(FMul(sim.overview[i], SpaceWeight("overview")),
                              FMul(sim.genres[i], SpaceWeight("genres"))),
                         FMul(sim.keywords[i], SpaceWeight("keywords")))
                blended ==
                    FAdd(FMul(content, sw),
                         FMul(CallSelf.wr_normalized[i], SCALE - sw))
            IN  Items[k].relevance_score =
                    (IF IsNaN(blended) THEN NaN
                     ELSE RoundHalfEven(blended * 10000, SCALE))

\* a call whose weights name the overview alone returned an item with a
\* positive score, blended from similarity and popularity
C5_Witness ==
    /\ Returned
    /\ ~call.args.weights.is_none
    /\ call.args.similarity_weight < SCALE
    /\ \E k \in DOMAIN Items :
          /\ Items[k].relevance_score > 0
          /\ CallSelf.wr_normalized[RowOf(CallSelf, Items[k].id)] > 0

\* C6: after fit every popularity score is in [0, 1], and when all the
\* weighted ratings are the same every popularity score is 0.
C6_PopularityRange ==
    obj.has_wr =>
    /\ \A i \in DOMAIN obj.wr_normalized :
          FGe(obj.wr_normalized[i], 0) /\ FGe(SCALE, obj.wr_normalized[i])
    /\ (\A i, j \in DOMAIN obj.weighted_rating :
            obj.weighted_rating[i] = obj.weighted_rating[j])
       => \A i \in DOMAIN obj.wr_normalized : obj.wr_normalized[i] = 0

\* C7: MODEL_PATH holds no artifact or a complete one, never one half
\* written.
C7_AtomicSave == disk.kind # "partial"

\* C8: a snapshot that cannot be deserialized does not abort startup: load
\* fails and startup goes on to fit the engine from the catalog.
C8_LoadFallback == pc # "aborted_load"

FitComplete(self) ==
    /\ ~self.df_is_none
    /\ self.has_wr
    /\ DOMAIN self.matrices = Range(Spaces)

C10_FittedStateUnchanged ==
    /\ [][(call.state = "idle" /\ call'.state = "done")
            => (app_recommender' = app_recommender
                /\ default_weights' = default_weights
                /\ obj' = obj)]_vars
    /\ [](Done /\ call.via = "method" => call.outcome.kind = "ok")

\* after a call that raised, a valid call returned items
C10_Witness ==
    /\ prev_failed
    /\ Returned
    /\ call.via = "method"
    /\ Len(Items) >= 1

\* C11: under every interleaving of the recommend calls running on the
\* worker threads, each call ends with the result it has when run alone
\* with its arguments on the installed engine.
C11_ConcurrentCallsIsolated ==
    \A t \in Threads :
        workers[t].pc = "done" =>
            workers[t].result =
                Recommend(app_recommender.value, default_weights, workers[t].args)

\* two calls with different arguments ran at the same time and ended with
\* different results, one of them with items
C11_Witness ==
    /\ \A t \in Threads : workers[t].pc = "done"
    /\ workers[1].args # workers[2].args
    /\ workers[1].result # workers[2].result
    /\ \E t \in Threads :
          workers[t].result.kind = "ok" /\ Len(workers[t].result.items) >= 1

\* the fit branch of on_startup_create_recommender is running
Fitting == pc \in {"load_data", "calculate_popularity", "build_models", "save", "saving"}

ShareOf(part, i) ==
    LET sim == SimScores(CallSelf, InputIndices(CallSelf.df, call.args.movie_ids))
        sw == call.args.similarity_weight
    IN  IF part = "popularity"
        THEN FMul(CallSelf.wr_normalized[i], SCALE - sw)
        ELSE FMul(FMul(sim[part][i], SpaceWeight(part)), sw)

Parts == {"overview", "genres", "keywords", "popularity"}

\* C13: each reported contribution of a returned item is its share (the
\* space's similarity times its weight times similarity_weight, or the
\* popularity times 1 - similarity_weight) as a percentage of the item's
\* final score, and is 0 when the final score is not positive, the divisor
\* being 1.
C13_ContributionBreakdown ==
    (Returned /\ Items # <<>>) =>
    LET final_scores == ScoresOf(CallSelf, default_weights, call.args)
    IN  \A k \in DOMAIN Items : \A part \in Parts :
            LET i == RowOf(CallSelf, Items[k].id)
                f == final_scores[i]
            IN  Items[k].column_contribution[part] =
                    (IF FGt(f, 0) THEN Percent(ShareOf(part, i), f)
                     ELSE IF IsNaN(f) THEN NaN
                     ELSE 0)

\* the call the request asks the engine for: its ids, its top_n, its
\* similarity_weight as the blending weight, min_score 0, default weights
RequestedArgs(body) ==
    Args(body.ids, body.top_n, 0, body.similarity_weight, WeightsNone)

\* C14: for a request with seed ids, a top_n and a similarity_weight the
\* engine is called with that top_n, that similarity_weight as the blending
\* weight, min_score 0 and the default space weights 0.2, 0.4, 0.4.
C14_ApiQueryArgs ==
    (Done /\ call.via = "api" /\ call.body.top_n # None
          /\ call.body.similarity_weight # None) =>
        /\ call.args = RequestedArgs(call.body)
        /\ call.outcome = Recommend(CallSelf, default_weights, RequestedArgs(call.body))
        /\ default_weights = DefaultWeights

\* C15: of two rows with the same vote_count above m, the one whose
\* vote_average is greater or equal has a popularity score at least as
\* large.
C15_PopularityMonotone ==
    obj.has_wr =>
    \A i, j \in DOMAIN obj.df :
        (/\ ~IsNaN(obj.df[i].vote_count)
         /\ obj.df[i].vote_count = obj.df[j].vote_count
         /\ FGt(MSCALE * obj.df[i].vote_count, obj.m)
         /\ FGe(obj.df[i].vote_average, obj.df[j].vote_average))
        => FGe(obj.wr_normalized[i], obj.wr_normalized[j])

\* two rows with the same vote_count above m, a higher vote_average and a
\* higher popularity score
C15_Witness ==
    /\ pc = "scored"
    /\ \E i, j \in DOMAIN obj.df :
        /\ obj.df[i].vote_count = obj.df[j].vote_count
        /\ FGt(MSCALE * obj.df[i].vote_count, obj.m)
        /\ FGt(obj.df[i].vote_average, obj.df[j].vote_average)
        /\ FGt(obj.wr_normalized[i], obj.wr_normalized[j])

\* the engines a fit or a load has returned
ReturnedEngines ==
    (IF pc \in {"save", "saving", "return", "serving"} THEN {obj} ELSE {})
        \cup (IF app_recommender.is_set THEN {app_recommender.value} ELSE {})

\* C16: in every engine a fit or a load has returned, each of the three
\* matrices and the popularity column has one row per row of df, and row i
\* of each is the one computed from the item at row i of df.
C16_RowsAligned ==
    \A self \in ReturnedEngines :
        /\ DOMAIN self.matrices = Range(Spaces)
        /\ \A col \in Range(Spaces) :
              /\ Len(self.matrices[col]) = Len(self.df)
              /\ self.matrices[col] = TfidfMatrix(Column(self.df, col))
        /\ Len(self.wr_normalized) = Len(self.df)
        /\ \A i \in DOMAIN self.df :
              self.weighted_rating[i] = WeightedRating(self.df[i], self.C, self.m)

\* startup has ended with an exception of the fit branch
FitAborted == pc \in {"aborted_fit", "aborted_engine"}

\* C17: when the fit fails, as it does on a catalog of zero items, startup
\* aborts: nothing is written to MODEL_PATH, no engine is installed, and
\* only completely built engines are saved, installed or asked.
C17_FitFailureAborts ==
    /\ FitAborted => (disk.kind = "absent" /\ ~app_recommender.is_set /\ ~FitComplete(obj))
    /\ pc \in {"build_models", "save", "saving"} => obj.df # <<>>
    /\ pc \in {"save", "saving", "return", "serving"} => FitComplete(obj)
    /\ disk.kind = "complete" => FitComplete(disk.data)
    /\ app_recommender.is_set => FitComplete(app_recommender.value)
    /\ Served => FitComplete(CallSelf)

\* the fit of a catalog of zero items has failed
C17_Witness ==
    /\ pc = "aborted_fit"
    /\ engine = "db"
    /\ movie_table = <<>>
    /\ ~obj.df_is_none

\* the rows of the engine that have the column
RowsWith(self, col) == {i \in DOMAIN self.df : ~IsNaN(Column(self.df, col)[i])}

\* the mean of vote_average over the rows that have one
MeanOfPresent(self) ==
    LET S == RowsWith(self, "vote_average")
    IN  IF S = {} THEN NaN
        ELSE SumOver([i \in S |-> self.df[i].vote_average], S) \div Cardinality(S)

\* the 95th percentile of vote_count in 1/MSCALE: with n <= 21 values it
\* lies between the two largest, n - 1 twentieths from the largest
PercentileOfCounts(self) ==
    LET S == RowsWith(self, "vote_count")
        n == Cardinality(S)
        top == CHOOSE i \in S : \A j \in S : self.df[i].vote_count >= self.df[j].vote_count
        rest == S \ {top}
        next == CHOOSE i \in rest : \A j \in rest : self.df[i].vote_count >= self.df[j].vote_count
    IN  IF n = 0 THEN NaN
        ELSE IF n = 1 THEN MSCALE * self.df[top].vote_count
        ELSE (n - 1) * self.df[next].vote_count
                + (MSCALE - (n - 1)) * self.df[top].vote_count

\* C18: after fit C is the mean of vote_average over the items that have
\* one, m is the 95th percentile of vote_count, and every item's weighted
\* rating is 0 when its vote_count is 0 and (v/(v+m))*R + (m/(v+m))*C
\* otherwise, with that C and that m for every item.
C18_WeightedRating ==
    obj.has_wr =>
        /\ obj.C = MeanOfPresent(obj)
        /\ obj.m = PercentileOfCounts(obj)
        /\ \A i \in DOMAIN obj.df :
            LET v == obj.df[i].vote_count
                R == obj.df[i].vote_average
                vm == MSCALE * v + obj.m
            IN  obj.weighted_rating[i] =
                    (IF v = 0 THEN 0
                     ELSE IF IsNaN(v) \/ IsNaN(R) \/ IsNaN(obj.C) \/ IsNaN(obj.m) THEN NaN
                     ELSE ((MSCALE * v * R) \div vm) + ((obj.m * obj.C) \div vm))

\* a fit has rated a catalog with a missing vote_average, a vote_count of 0
\* and a row with both
C18_Witness ==
    /\ pc = "build_models"
    /\ \E i, j, k \in DOMAIN obj.df :
        /\ IsNaN(obj.df[i].vote_average)
        /\ obj.df[j].vote_count = 0 /\ obj.weighted_rating[j] = 0
        /\ obj.df[k].vote_count > 0 /\ obj.weighted_rating[k] > 0
    /\ ~IsNaN(obj.C)
    /\ obj.m > 0

\* the reported contributions of a returned item, added up, in 1/100 of a
\* percent
ContributionSum(item) ==
    item.column_contribution.overview + item.column_contribution.genres
        + item.column_contribution.keywords + item.column_contribution.popularity

Distance(a, b) == IF a >= b THEN a - b ELSE b - a

\* C19: the four contributions of a returned item with a final score above
\* 0 add up to 100 percent of it, up to the rounding of each to 2 decimals
\* (half of 0.01 percent each) and to the 1/SCALE the products of the three
\* spaces are kept to.
C19_ContributionsAddUp ==
    (Returned /\ Items # <<>>) =>
    LET final_scores == ScoresOf(CallSelf, default_weights, call.args)
    IN  \A k \in DOMAIN Items :
            LET f == final_scores[RowOf(CallSelf, Items[k].id)]
            IN  FGt(f, 0) =>
                  Distance(ContributionSum(Items[k]), 100 * 100) * f
                      <= 2 * f + 2 * 100 * 100

\* a returned item with a positive part from each space and from the
\* popularity
C19_Witness ==
    /\ Returned
    /\ \E k \in DOMAIN Items :
        /\ Items[k].relevance_score > 0
        /\ \A part \in Parts : Items[k].column_contribution[part] > 0

====
